---- MODULE Spec2Model ----
(***************************************************************************)
(* Model of the Gemini Translator API (src/app.py): module start-up and    *)
(* the POST /translate handler behind the require_rapidapi_secret          *)
(* decorator, with several requests handled concurrently.                  *)
(***************************************************************************)
EXTENDS Integers, Sequences, FiniteSets, Bags, TLC

\* Number of requests the hosting runtime dispatches concurrently.
NumReqs == 2

Reqs == 1..NumReqs

----------------------------------------------------------------------------
\* Python values that occur in the handler.

PyNone == <<"none">>

PyStr(s) == <<"str", s>>

IsStr(v) == v[1] = "str"

\* `not v`: None and the empty string are falsy.
Truthy(v) == IsStr(v) /\ Len(v[2]) > 0

\* str(v) as an f-string interpolates it.
Format(v) == IF IsStr(v) THEN v[2] ELSE "None"

----------------------------------------------------------------------------
\* Strings.

IsSpace(c) == c \in {" ", "\t", "\n", "\r"}

RECURSIVE lstrip(_)
lstrip(s) ==
    IF Len(s) > 0 /\ IsSpace(SubSeq(s, 1, 1))
    THEN lstrip(SubSeq(s, 2, Len(s)))
    ELSE s

RECURSIVE rstrip(_)
rstrip(s) ==
    IF Len(s) > 0 /\ IsSpace(SubSeq(s, Len(s), Len(s)))
    THEN rstrip(SubSeq(s, 1, Len(s) - 1))
    ELSE s

\* Variant: only leading whitespace is removed.
strip_leading(s) == lstrip(s)

\* str.strip()
strip(s) == rstrip(lstrip(s))

\* `sub in s`
Contains(s, sub) ==
    \E i \in 1..(Len(s) - Len(sub) + 1) : SubSeq(s, i, i + Len(sub) - 1) = sub

----------------------------------------------------------------------------
\* Process environment at start-up: each variable absent, empty or set.

EnvValues == {PyNone, PyStr(""), PyStr("k3y")}

----------------------------------------------------------------------------
\* Requests.  A body is its Content-Type and its data: no bytes, bytes that
\* do not parse, or the JSON document the bytes parse to.

JAbsent == <<"absent">>

JMalformed == <<"malformed">>

JNull == <<"null">>

JArray == <<"array">>

JString(s) == <<"string", s>>

JNumber(n) == <<"number", n>>

\* A JSON object: a function from its keys to Python values.
JObject(f) == <<"object", f>>

Hola == PyStr("Hola")

English == PyStr("English")

HolaObject == JObject(("text" :> Hola) @@ ("target_language" :> English))

ObjectBodies ==
    { JObject(<<>>),
      JObject("text" :> Hola),
      JObject("target_language" :> English),
      JObject(("text" :> PyStr("")) @@ ("target_language" :> English)),
      JObject(("text" :> Hola) @@ ("target_language" :> PyStr(""))),
      HolaObject,
      JObject(("text" :> PyStr("Guten Tag")) @@ ("target_language" :> PyStr("French"))
              @@ ("source_language" :> PyStr("German"))) }

JsonDocs == {JNull, JArray, JString("text"), JNumber(7)} \cup ObjectBodies

Bodies ==
    [content_type : {"application/json"}, data : {JAbsent, JMalformed} \cup JsonDocs]
    \cup {[content_type |-> "text/plain", data |-> HolaObject],
          [content_type |-> "", data |-> JAbsent]}

\* Bodies sent with a missing or wrong secret: valid JSON, malformed, non-JSON, absent.
UnauthBodies ==
    { b \in Bodies :
        \/ b.content_type = "application/json" /\ b.data \in {JAbsent, JMalformed, HolaObject}
        \/ b.content_type # "application/json" }

Headers == {PyNone, PyStr("K3Y"), PyStr("k3y")}

Requests ==
    { q \in [header : Headers, content_type : {"application/json", "text/plain", ""},
             data : {JAbsent, JMalformed} \cup JsonDocs] :
        LET b == [content_type |-> q.content_type, data |-> q.data]
        IN  /\ b \in Bodies
            /\ q.header # PyStr("k3y") => b \in UnauthBodies }

NoRequest == [header |-> PyNone, content_type |-> "", data |-> <<"none">>]

----------------------------------------------------------------------------
\* What model.generate_content(prompt) and response.text can do.

Replies ==
    { "", " \n", " Hello ", "Bonjour", "I am not able to do that",
      " Sorry, I am not able to translate this. ", "I am not able" }

Errors ==
    { [cls |-> "ResourceExhausted", msg |-> "rate limit exceeded"],
      [cls |-> "TimeoutError", msg |-> "timed out"],
      [cls |-> "DeadlineExceeded", msg |-> "timed out"] }

\* generate_content raised e; it returned a response whose .text is s; it
\* returned a blocked response, whose .text raises ValueError.
Raised(e) == <<"raised", e>>

Returned(s) == <<"text", s>>

Blocked == <<"blocked", [cls |-> "ValueError", msg |-> "no valid Part"]>>

Outcomes ==
    {Raised(e) : e \in Errors} \cup {Returned(s) : s \in Replies} \cup {Blocked}

NoOutcome == <<"none">>

----------------------------------------------------------------------------
\* HTTP responses.

NoResponse == [code |-> 0, mimetype |-> "", body |-> <<>>]

\* jsonify(d), code
jsonify(d, code) == [code |-> code, mimetype |-> "application/json", body |-> d]

\* An HTTPException no errorhandler is registered for: werkzeug renders its
\* HTML page.
abort(code, description) ==
    [code |-> code, mimetype |-> "text/html", body |-> [description |-> description]]

\* An exception that escapes the view: Flask answers 500 Internal Server Error.
handle_exception(cls) == abort(500, "Internal Server Error")

ForbiddenDescription == "Forbidden: You are not authorized to access this resource."

MissingJsonMessage == "Invalid request: Missing JSON body."

MissingFieldsMessage == "Missing required fields: 'text' and 'target_language'."

TranslationFailedMessage == "Translation failed. The model could not process the request."

RefusalMarker == "I am not able to"

\* Variant: the error's text is kept from the caller.
ErrorMessage_redacted(e) == "An error occurred during translation."

ErrorMessage(e) == "An error occurred during translation: " \o e.msg

LogMessage(e) == "Gemini API error: " \o e.msg

----------------------------------------------------------------------------

VARIABLES
    env,                    \* os.environ after load_dotenv()
    phase,                  \* "boot", "failed" (ValueError raised) or "serving"
    GEMINI_API_KEY,
    RAPIDAPI_PROXY_SECRET,
    routes,                 \* URL rules registered on app
    pc,                     \* per request: where its handler invocation stands
    req,                    \* per request: the request its context holds
    locals,                 \* per request: the handler's local variables
    response,               \* per request: what generate_content gave
    resp,                   \* per request: the HTTP response sent
    calls,                  \* per request: number of generate_content calls
    trace,                  \* per request: the steps taken, in order
    log                     \* app.logger: the error records written

config == <<env, phase, GEMINI_API_KEY, RAPIDAPI_PROXY_SECRET, routes>>

vars == <<env, phase, GEMINI_API_KEY, RAPIDAPI_PROXY_SECRET, routes,
          pc, req, locals, response, resp, calls, trace, log>>

getenv(name) == env[name]

\* Variant: `if X is None`.
Configured_is_not_none(v) == v # PyNone

\* Lines 16 and 18: `if not X: raise ValueError`.
Configured(v) == Truthy(v)

NoLocals ==
    [text_to_translate |-> PyNone, target_language |-> PyNone,
     source_language |-> PyNone, prompt |-> ""]

Init ==
    /\ env \in [{"GEMINI_API_KEY", "RAPIDAPI_PROXY_SECRET"} -> EnvValues]
    /\ phase = "boot"
    /\ GEMINI_API_KEY = PyNone
    /\ RAPIDAPI_PROXY_SECRET = PyNone
    /\ routes = {}
    /\ pc = [r \in Reqs |-> "idle"]
    /\ req = [r \in Reqs |-> NoRequest]
    /\ locals = [r \in Reqs |-> NoLocals]
    /\ response = [r \in Reqs |-> NoOutcome]
    /\ resp = [r \in Reqs |-> NoResponse]
    /\ calls = [r \in Reqs |-> 0]
    /\ trace = [r \in Reqs |-> <<>>]
    /\ log = EmptyBag

handlers == <<pc, req, locals, response, resp, calls, trace, log>>

\* Lines 13-19 raise ValueError: the module body stops before any @app.route.
StartupFail ==
    /\ phase = "boot"
    /\ \/ ~Configured(getenv("GEMINI_API_KEY"))
       \/ ~Configured(getenv("RAPIDAPI_PROXY_SECRET"))
    /\ GEMINI_API_KEY' = getenv("GEMINI_API_KEY")
    /\ RAPIDAPI_PROXY_SECRET' = getenv("RAPIDAPI_PROXY_SECRET")
    /\ phase' = "failed"
    /\ UNCHANGED <<env, routes>>
    /\ UNCHANGED handlers

\* Lines 13-97 run to the end: configuration read, model built, routes registered.
StartupOk ==
    /\ phase = "boot"
    /\ Configured(getenv("GEMINI_API_KEY"))
    /\ Configured(getenv("RAPIDAPI_PROXY_SECRET"))
    /\ GEMINI_API_KEY' = getenv("GEMINI_API_KEY")
    /\ RAPIDAPI_PROXY_SECRET' = getenv("RAPIDAPI_PROXY_SECRET")
    /\ phase' = "serving"
    /\ routes' = {"/", "/translate", "/health"}
    /\ UNCHANGED env
    /\ UNCHANGED handlers

----------------------------------------------------------------------------
\* The /translate view.

\* Variant: one module-level request object, that of the first request in flight.
request_shared(r) == req[CHOOSE q \in Reqs : pc[q] # "idle"]

\* flask.request resolves to the request of the calling handler's own context.
request(r) == req[r]

\* request.headers.get('X-RapidAPI-Proxy-Secret')
headers_get(q) == q.header

\* Variant: only a missing header is turned away.
SecretMismatch_presence(q) == headers_get(q) = PyNone

\* Line 31.
SecretMismatch(q) == headers_get(q) # RAPIDAPI_PROXY_SECRET

\* request.is_json: the mimetype says JSON; the data is not looked at.
is_json(q) == q.content_type = "application/json"

\* request.get_json() fails with BadRequest on data that does not parse.
\* Variant: get_json(silent=True) never fails.
get_json_fails_silent(q) == FALSE

get_json_fails(q) == q.data \in {JAbsent, JMalformed}

get_json(q) == q.data

\* data.get raises AttributeError unless data is a dict.
has_get(data) == data[1] = "object"

\* data.get(key, default)
dict_get(data, key, default) ==
    IF key \in DOMAIN data[2] THEN data[2][key] ELSE default

\* Lines 66-71.
BuildPrompt(source_language, target_language, text_to_translate) ==
    "Translate the following text from " \o Format(source_language) \o " to "
    \o Format(target_language) \o ". "
    \o "Provide ONLY the translated text, without any additional explanations, "
    \o "introductory phrases, or quotation marks. "
    \o "Text to translate: '" \o Format(text_to_translate) \o "'"

\* Lines 58-60.
ReadFields(data) ==
    [text_to_translate |-> dict_get(data, "text", PyNone),
     target_language |-> dict_get(data, "target_language", PyNone),
     source_language |-> dict_get(data, "source_language", PyStr("auto-detect")),
     prompt |-> ""]

\* Variant: only `text` is required.
FieldsMissing_text_only(l) == ~Truthy(l.text_to_translate)

\* Line 62.
FieldsMissing(l) == ~Truthy(l.text_to_translate) \/ ~Truthy(l.target_language)

\* Variant: only the empty reply is rejected.
Unusable_empty(translated_text) == translated_text = ""

\* Line 79.
Unusable(translated_text) ==
    translated_text = "" \/ Contains(translated_text, RefusalMarker)

Step(r, name) == [trace EXCEPT ![r] = Append(@, name)]

Steps(r, names) == [trace EXCEPT ![r] = @ \o names]

\* The runtime dispatches a POST /translate to a handler invocation.
Receive(r) ==
    /\ phase = "serving"
    /\ "/translate" \in routes
    /\ pc[r] = "idle"
    /\ \E q \in Requests : req' = [req EXCEPT ![r] = q]
    /\ pc' = [pc EXCEPT ![r] = "auth"]
    /\ UNCHANGED <<config, locals, response, resp, calls, trace, log>>

\* decorated_function, lines 29-33.
AuthGate(r) ==
    /\ pc[r] = "auth"
    /\ IF SecretMismatch(request(r))
       THEN /\ resp' = [resp EXCEPT ![r] = abort(403, ForbiddenDescription)]
            /\ pc' = [pc EXCEPT ![r] = "done"]
            /\ trace' = Steps(r, <<"auth", "respond">>)
       ELSE /\ pc' = [pc EXCEPT ![r] = "validate"]
            /\ trace' = Step(r, "auth")
            /\ UNCHANGED resp
    /\ UNCHANGED <<config, req, locals, response, calls, log>>

\* translate_text, lines 54-71.
Validate(r) ==
    /\ pc[r] = "validate"
    /\ LET q == request(r)
           l == ReadFields(get_json(q))
           Reject(answer) ==
               /\ resp' = [resp EXCEPT ![r] = answer]
               /\ pc' = [pc EXCEPT ![r] = "done"]
               /\ trace' = Steps(r, <<"validate", "respond">>)
               /\ UNCHANGED locals
       IN  IF ~is_json(q)
           THEN Reject(jsonify([status |-> "error", message |-> MissingJsonMessage], 400))
           ELSE IF get_json_fails(q)
           THEN Reject(abort(400, "Bad Request"))
           ELSE IF ~has_get(get_json(q))
           THEN Reject(handle_exception("AttributeError"))
           ELSE IF FieldsMissing(l)
           THEN Reject(jsonify([status |-> "error", message |-> MissingFieldsMessage], 400))
           ELSE /\ locals' = [locals EXCEPT ![r] =
                         [l EXCEPT !.prompt = BuildPrompt(l.source_language,
                                                           l.target_language,
                                                           l.text_to_translate)]]
                /\ pc' = [pc EXCEPT ![r] = "call"]
                /\ trace' = Steps(r, <<"validate", "build-prompt">>)
                /\ UNCHANGED resp
    /\ UNCHANGED <<config, req, response, calls, log>>

\* Line 75: the blocking round trip to the model.
GenerateContent(r) ==
    /\ pc[r] = "call"
    /\ \E o \in Outcomes : response' = [response EXCEPT ![r] = o]
    /\ calls' = [calls EXCEPT ![r] = @ + 1]
    /\ pc' = [pc EXCEPT ![r] = "result"]
    /\ trace' = Step(r, "delegate")
    /\ UNCHANGED <<config, req, locals, resp, log>>

\* Lines 76-87: response.text was read.
ValidateOutput(r) ==
    /\ pc[r] = "result"
    /\ response[r][1] = "text"
    /\ LET translated_text == strip(response[r][2])
           l == locals[r]
       IN  resp' = [resp EXCEPT ![r] =
               IF Unusable(translated_text)
               THEN jsonify([status |-> "error", message |-> TranslationFailedMessage], 500)
               ELSE jsonify([status |-> "success",
                             original_text |-> l.text_to_translate,
                             target_language |-> l.target_language,
                             translated_text |-> translated_text], 200)]
    /\ pc' = [pc EXCEPT ![r] = "done"]
    /\ trace' = Steps(r, <<"validate-output", "respond">>)
    /\ UNCHANGED <<config, req, locals, response, calls, log>>

\* Lines 89-92: generate_content or response.text raised.
HandleException(r) ==
    /\ pc[r] = "result"
    /\ response[r][1] \in {"raised", "blocked"}
    /\ LET e == response[r][2]
       IN  /\ log' = log (+) SetToBag({LogMessage(e)})
           /\ resp' = [resp EXCEPT ![r] =
                  jsonify([status |-> "error", message |-> ErrorMessage(e)], 500)]
    /\ pc' = [pc EXCEPT ![r] = "done"]
    /\ trace' = Steps(r, <<"validate-output", "respond">>)
    /\ UNCHANGED <<config, req, locals, response, calls>>

Next ==
    \/ StartupFail
    \/ StartupOk
    \/ \E r \in Reqs :
        \/ Receive(r)
        \/ AuthGate(r)
        \/ Validate(r)
        \/ GenerateContent(r)
        \/ ValidateOutput(r)
        \/ HandleException(r)

Spec == Init /\ [][Next]_vars

----------------------------------------------------------------------------
\* Vocabulary of the properties.

ConfiguredSecret == env["RAPIDAPI_PROXY_SECRET"]

Answered(r) == pc[r] = "done"

Arrived(r) == pc[r] # "idle"

SentSecret(r) == req[r].header = ConfiguredSecret

JsonType(r) == req[r].content_type = "application/json"

ValidJson(r) == JsonType(r) /\ req[r].data \in JsonDocs

\* The field of the request's JSON document, None when it has none.
Field(r, key) ==
    IF req[r].data[1] = "object" /\ key \in DOMAIN req[r].data[2]
    THEN req[r].data[2][key]
    ELSE PyNone

MissingOrEmpty(v) == v = PyNone \/ v = PyStr("")

ValidFields(r) ==
    /\ ValidJson(r)
    /\ ~MissingOrEmpty(Field(r, "text"))
    /\ ~MissingOrEmpty(Field(r, "target_language"))

IsErrorJson(a) ==
    /\ a.mimetype = "application/json"
    /\ DOMAIN a.body = {"status", "message"}
    /\ a.body.status = "error"

AllSpace(s) == \A i \in 1..Len(s) : IsSpace(SubSeq(s, i, i))

\* s without its leading and trailing whitespace: what lies between its
\* first and its last character that is no whitespace.
Trimmed(s) ==
    LET first == CHOOSE i \in 1..(Len(s) + 1) :
                     /\ AllSpace(SubSeq(s, 1, i - 1))
                     /\ i <= Len(s) => ~IsSpace(SubSeq(s, i, i))
        last == CHOOSE j \in 0..Len(s) :
                    /\ AllSpace(SubSeq(s, j + 1, Len(s)))
                    /\ j >= 1 => ~IsSpace(SubSeq(s, j, j))
    IN  IF first > last THEN "" ELSE SubSeq(s, first, last)

ReplyOf(r) == response[r][2]

GotText(r) == response[r][1] = "text"

GotError(r) == response[r][1] \in {"raised", "blocked"}

UsableReply(s) == ~AllSpace(s) /\ ~Contains(s, RefusalMarker)

----------------------------------------------------------------------------
\* C1: a request whose X-RapidAPI-Proxy-Secret header is absent or differs
\* from the configured secret is answered 403 whatever its body is, and
\* nothing else is done for it: no body parsing, no field validation, no
\* prompt, no model call.
C1_ForbiddenWithoutSecret ==
    \A r \in Reqs :
        Arrived(r) /\ ~SentSecret(r) =>
            /\ pc[r] \in {"auth", "done"}
            /\ Answered(r) => resp[r].code = 403 /\ trace[r] = <<"auth", "respond">>
            /\ locals[r] = NoLocals
            /\ response[r] = NoOutcome
            /\ calls[r] = 0

C1_Witness ==
    \E r \in Reqs :
        /\ Answered(r) /\ resp[r].code = 403
        /\ req[r].header = PyStr("K3Y")
        /\ req[r].data = HolaObject /\ JsonType(r)

\* C2 (as claimed): with the right secret and valid JSON in which `text` or
\* `target_language` is missing or empty, the answer is 400, status "error",
\* and the message names both fields; also when the JSON value is no object.
C2_MissingFieldIs400 ==
    \A r \in Reqs :
        /\ Answered(r) /\ SentSecret(r) /\ ValidJson(r)
        /\ MissingOrEmpty(Field(r, "text")) \/ MissingOrEmpty(Field(r, "target_language"))
        => /\ resp[r].code = 400
           /\ IsErrorJson(resp[r])
           /\ Contains(resp[r].body.message, "'text'")
           /\ Contains(resp[r].body.message, "'target_language'")

\* C3: with the right secret and a body that is not valid JSON (no JSON
\* content type, or a JSON content type with data that does not parse), the
\* answer is 400 and the model is never invoked.
C3_NotJsonIs400 ==
    \A r \in Reqs :
        Arrived(r) /\ SentSecret(r)
        /\ (~JsonType(r) \/ req[r].data \in {JAbsent, JMalformed})
        => /\ pc[r] \in {"auth", "validate", "done"}
           /\ Answered(r) => resp[r].code = 400
           /\ calls[r] = 0

C3_Witness ==
    \E r \in Reqs :
        /\ Answered(r) /\ SentSecret(r) /\ resp[r].code = 400
        /\ JsonType(r) /\ req[r].data = JMalformed

\* C4: an authenticated request with both fields whose model reply, once
\* trimmed, is non-empty and free of "I am not able to" is answered 200 with
\* status "success", original_text and target_language as sent, and
\* translated_text the trimmed reply (" Hello " gives "Hello").
C4_SuccessReturnsTrimmedReply ==
    \A r \in Reqs :
        Answered(r) /\ SentSecret(r) /\ ValidFields(r) /\ GotText(r)
        /\ UsableReply(ReplyOf(r))
        => /\ resp[r].code = 200
           /\ resp[r].mimetype = "application/json"
           /\ DOMAIN resp[r].body =
                  {"status", "original_text", "target_language", "translated_text"}
           /\ resp[r].body.status = "success"
           /\ resp[r].body.original_text = Field(r, "text")
           /\ resp[r].body.target_language = Field(r, "target_language")
           /\ resp[r].body.translated_text = Trimmed(ReplyOf(r))
           /\ ReplyOf(r) = " Hello " => resp[r].body.translated_text = "Hello"

C4_Witness ==
    \E r \in Reqs :
        /\ Answered(r) /\ GotText(r) /\ ReplyOf(r) = " Hello "
        /\ SentSecret(r) /\ Field(r, "text") = Hola
        /\ resp[r].code = 200 /\ resp[r].body.translated_text = "Hello"

\* C5: an authenticated request with both fields whose model reply is empty
\* once trimmed, or contains "I am not able to", is answered 500 with status
\* "error" and one fixed message that does not carry the reply; and no
\* success answer has a translated_text that is empty or contains it.
C5_UnusableReplyIs500 ==
    \A r \in Reqs :
        /\ Answered(r) /\ GotText(r) /\ ~UsableReply(ReplyOf(r))
           => /\ resp[r].code = 500
              /\ IsErrorJson(resp[r])
              /\ resp[r].body.message = TranslationFailedMessage
              /\ ~Contains(resp[r].body.message, RefusalMarker)
              /\ ~AllSpace(ReplyOf(r)) => ~Contains(resp[r].body.message, ReplyOf(r))
        /\ Answered(r) /\ "translated_text" \in DOMAIN resp[r].body
           => /\ resp[r].body.translated_text # ""
              /\ ~Contains(resp[r].body.translated_text, RefusalMarker)

C5_Witness ==
    \E r \in Reqs :
        /\ Answered(r) /\ GotText(r)
        /\ ReplyOf(r) = " Sorry, I am not able to translate this. "
        /\ resp[r].code = 500
        /\ \E q \in Reqs : Answered(q) /\ GotText(q) /\ ReplyOf(q) = " \n" /\ resp[q].code = 500

\* C6: when the model call, or reading the reply text, raises, the error is
\* caught, logged, and answered 500 with status "error" and a message that
\* includes the error's string; the class of the error makes no difference.
C6_RaisedErrorIs500 ==
    \A r \in Reqs :
        Answered(r) /\ GotError(r) =>
            /\ resp[r].code = 500
            /\ IsErrorJson(resp[r])
            /\ Contains(resp[r].body.message, ReplyOf(r).msg)
            /\ \E m \in BagToSet(log) : Contains(m, ReplyOf(r).msg)
            /\ \A q \in Reqs :
                   Answered(q) /\ GotError(q) /\ ReplyOf(q).msg = ReplyOf(r).msg
                   => resp[q] = resp[r]

C6_Witness ==
    \E r \in Reqs : \E q \in Reqs :
        /\ Answered(r) /\ GotError(r) /\ ReplyOf(r).msg = "rate limit exceeded"
        /\ resp[r].code = 500
        /\ Answered(q) /\ GotError(q) /\ ReplyOf(q).cls = "TimeoutError"
        /\ BagCardinality(log) = 2

\* C7 (as claimed): every error answer (403, 400, 500) has a JSON body of
\* the shape {status: "error", message: <string>}.
C7_EveryErrorIsJson ==
    \A r \in Reqs :
        Answered(r) /\ resp[r].code >= 400 => IsErrorJson(resp[r])

\* C8: start-up fails, with no route registered, when GEMINI_API_KEY or
\* RAPIDAPI_PROXY_SECRET is absent or empty; whenever a request is being
\* served both are set and non-empty.
C8_NoServingWithoutConfig ==
    LET Unset(name) == env[name] = PyNone \/ env[name] = PyStr("")
        Incomplete == Unset("GEMINI_API_KEY") \/ Unset("RAPIDAPI_PROXY_SECRET")
    IN  /\ Incomplete /\ phase # "boot" => phase = "failed" /\ routes = {}
        /\ phase = "failed" => routes = {} /\ \A r \in Reqs : ~Arrived(r)
        /\ (\E r \in Reqs : Arrived(r)) =>
               /\ ~Incomplete
               /\ GEMINI_API_KEY = env["GEMINI_API_KEY"]
               /\ RAPIDAPI_PROXY_SECRET = env["RAPIDAPI_PROXY_SECRET"]
               /\ Len(GEMINI_API_KEY[2]) > 0
               /\ Len(RAPIDAPI_PROXY_SECRET[2]) > 0

C8_Witness ==
    /\ phase = "failed"
    /\ env["GEMINI_API_KEY"] = PyStr("k3y")
    /\ env["RAPIDAPI_PROXY_SECRET"] = PyStr("")
    /\ routes = {}

FullPath ==
    <<"auth", "validate", "build-prompt", "delegate", "validate-output", "respond">>

Paths == {<<"auth", "respond">>, <<"auth", "validate", "respond">>, FullPath}

IsPrefix(t, p) == Len(t) <= Len(p) /\ t = SubSeq(p, 1, Len(t))

Count(t, name) == Cardinality({i \in 1..Len(t) : t[i] = name})

InOrder(r) ==
    /\ \E p \in Paths : IsPrefix(trace[r], p)
    /\ calls[r] = Count(trace[r], "delegate")
    /\ calls[r] <= 1
    /\ calls[r] = 1 => SentSecret(r) /\ ValidFields(r)
    /\ Count(trace[r], "respond") = (IF Answered(r) THEN 1 ELSE 0)
    /\ Answered(r) <=> resp[r] # NoResponse

Final(r) ==
    Answered(r) =>
        /\ resp'[r] = resp[r]
        /\ calls'[r] = calls[r]
        /\ trace'[r] = trace[r]
        /\ Answered(r)'

\* C9: the steps of a request come only in the order auth, validate,
\* build-prompt, delegate, validate-output, respond; the model is invoked
\* only after the secret and both fields were checked, at most once, and a
\* request gets one response, after which nothing more is done for it.
C9_StepsInOrder == [][\A r \in Reqs : InOrder(r)' /\ Final(r)]_vars

C9_Witness ==
    \E r \in Reqs : \E q \in Reqs :
        /\ Answered(r) /\ trace[r] = FullPath /\ calls[r] = 1 /\ GotError(r)
        /\ Answered(q) /\ trace[q] = <<"auth", "validate", "respond">>

\* The response the handler gives to request q when the model's outcome,
\* if it comes to a call, is o.
HandledAlone(q, o) ==
    LET text == IF "text" \in DOMAIN q.data[2] THEN q.data[2]["text"] ELSE PyNone
        target ==
            IF "target_language" \in DOMAIN q.data[2]
            THEN q.data[2]["target_language"]
            ELSE PyNone
        error(code, message) ==
            [code |-> code, mimetype |-> "application/json",
             body |-> [status |-> "error", message |-> message]]
        page(code, description) ==
            [code |-> code, mimetype |-> "text/html",
             body |-> [description |-> description]]
    IN  IF q.header # ConfiguredSecret THEN page(403, ForbiddenDescription)
        ELSE IF q.content_type # "application/json" THEN error(400, MissingJsonMessage)
        ELSE IF q.data \in {JAbsent, JMalformed} THEN page(400, "Bad Request")
        ELSE IF q.data[1] # "object" THEN page(500, "Internal Server Error")
        ELSE IF MissingOrEmpty(text) \/ MissingOrEmpty(target)
        THEN error(400, MissingFieldsMessage)
        ELSE IF o[1] # "text"
        THEN error(500, "An error occurred during translation: " \o o[2].msg)
        ELSE IF ~UsableReply(o[2]) THEN error(500, TranslationFailedMessage)
        ELSE [code |-> 200, mimetype |-> "application/json",
              body |-> [status |-> "success", original_text |-> text,
                        target_language |-> target,
                        translated_text |-> Trimmed(o[2])]]

Independent ==
    \A r \in Reqs : Answered(r) => resp[r] = HandledAlone(req[r], response[r])

\* C10: however concurrently handled requests interleave, the configured
\* secret and model credential do not change once start-up is over, and each
\* response is the one its request would get if handled alone: fixed by its
\* own header, its own body and the model's outcome for it.
C10_RequestsIndependent ==
    [][/\ phase # "boot" => UNCHANGED <<GEMINI_API_KEY, RAPIDAPI_PROXY_SECRET>>
       /\ Independent']_vars

C10_Witness ==
    \E r \in Reqs : \E q \in Reqs :
        /\ Answered(r) /\ resp[r].code = 200
        /\ Answered(q) /\ resp[q].code = 403
        /\ req[q].data = req[r].data /\ req[q].content_type = req[r].content_type

====
